---- MODULE Spec2Model ----
(***************************************************************************)
(* ACC hotlap merger (src/merger.py): the two-level best-lap reduction.    *)
(* process_session_data reduces one session to the best valid lap per      *)
(* (playerId, carModel); aggregate_results folds the sessions of a ZIP     *)
(* archive, in directory order, into one table, ranks it and annotates     *)
(* every entry with its gap; export_hotlaps writes the table as CSV.       *)
(*                                                                         *)
(* Python values are modelled as follows.  A dict whose order matters      *)
(* (best_laps, aggregated_results) is the sequence of its <<key, value>>   *)
(* items in insertion order; a dict whose order is never read (driver_map, *)
(* player_names) is a function.  A str is the sequence of its characters.  *)
(* An optional value (a name that may be unbound) is a sequence of length  *)
(* 0 or 1.                                                                 *)
(***************************************************************************)
EXTENDS Integers, Sequences, FiniteSets, TLC

\* ------------------------------------------------------------ bounds
\* members of an archive
MaxMembers == 2
\* laps of an archive, all its sessions together
MaxLaps == 3
\* laps of the session of a one-session archive with a free leaderboard
MaxSessionLaps == 2

\* ------------------------------------------------------------ Python helpers
Min2(a, b) == IF a <= b THEN a ELSE b

\* str.endswith
EndsWith(s, suffix) ==
    /\ Len(s) >= Len(suffix)
    /\ SubSeq(s, Len(s) - Len(suffix) + 1, Len(s)) = suffix

\* key in d
DictHas(d, k) == \E i \in 1..Len(d) : d[i][1] = k

\* the position of key k among the items of d
DictIndex(d, k) == CHOOSE i \in 1..Len(d) : d[i][1] = k

\* d[k]
DictGet(d, k) == d[DictIndex(d, k)][2]

\* d[k] = v: a present key keeps its position, a new key goes last
DictSet(d, k, v) ==
    IF DictHas(d, k)
    THEN [d EXCEPT ![DictIndex(d, k)] = <<k, v>>]
    ELSE Append(d, <<k, v>>)

\* ------------------------------------------------------------ process_session_data
EmptyMap == [x \in {} |-> x]

\* the items one leaderboard entry contributes to driver_map:
\* (carId, idx) -> (playerId, carModel) for idx, driver in enumerate(drivers)
EntryDriverMap(entry) ==
    [ref \in {<<entry.car.carId, i - 1>> : i \in 1..Len(entry.car.drivers)} |->
        <<entry.car.drivers[ref[2] + 1].playerId, entry.car.carModel>>]

\* driver_map after the first n leaderboard entries; a later entry overwrites
RECURSIVE DriverMapUpTo(_, _)
DriverMapUpTo(leaderboard, n) ==
    IF n = 0 THEN EmptyMap
    ELSE EntryDriverMap(leaderboard[n]) @@ DriverMapUpTo(leaderboard, n - 1)

driver_map(leaderboard) == DriverMapUpTo(leaderboard, Len(leaderboard))

\* player_names after the first n drivers of one entry, on top of names
RECURSIVE EntryNamesUpTo(_, _, _)
EntryNamesUpTo(drivers, n, names) ==
    IF n = 0 THEN names
    ELSE (drivers[n].playerId :> <<drivers[n].firstName, drivers[n].lastName>>)
            @@ EntryNamesUpTo(drivers, n - 1, names)

\* player_names after the first n leaderboard entries; a later driver overwrites
RECURSIVE PlayerNamesUpTo(_, _)
PlayerNamesUpTo(leaderboard, n) ==
    IF n = 0 THEN EmptyMap
    ELSE EntryNamesUpTo(leaderboard[n].car.drivers, Len(leaderboard[n].car.drivers),
                        PlayerNamesUpTo(leaderboard, n - 1))

player_names(leaderboard) == PlayerNamesUpTo(leaderboard, Len(leaderboard))

\* DriverMapGet with the driver index ignored: the car's first driver is taken
DriverMapGetFirstDriver(dm, lap) ==
    IF <<lap.carId, 0>> \in DOMAIN dm THEN <<dm[<<lap.carId, 0>>]>> ELSE <<>>

\* driver_map.get((carId, driverIndex)): <<>> stands for None
DriverMapGet(dm, lap) ==
    IF <<lap.carId, lap.driverIndex>> \in DOMAIN dm
    THEN <<dm[<<lap.carId, lap.driverIndex>>]>>
    ELSE <<>>

\* LapImproves without the test of isValidForBest
LapImprovesAnyLap(best_laps, key, lap) ==
    ~DictHas(best_laps, key) \/ lap.laptime < DictGet(best_laps, key).laptime

\* the condition under which a resolved lap is stored
LapImproves(best_laps, key, lap) ==
    /\ lap.isValidForBest
    /\ (~DictHas(best_laps, key) \/ lap.laptime < DictGet(best_laps, key).laptime)

\* one iteration of "for lap in laps"
LapStep(best_laps, dm, names, lap) ==
    LET got == DriverMapGet(dm, lap) IN
    IF got = <<>> THEN best_laps
    ELSE LET key == got[1] IN
         IF LapImproves(best_laps, key, lap)
         THEN DictSet(best_laps, key,
                      [laptime |-> lap.laptime,
                       splits  |-> lap.splits,
                       name    |-> names[key[1]]])
         ELSE best_laps

\* best_laps after the first n laps
RECURSIVE BestLapsUpTo(_, _, _, _)
BestLapsUpTo(laps, n, dm, names) ==
    IF n = 0 THEN <<>>
    ELSE LapStep(BestLapsUpTo(laps, n - 1, dm, names), dm, names, laps[n])

process_session_data(data) ==
    LET laps        == data.laps
        leaderboard == data.sessionResult.leaderBoardLines
    IN  BestLapsUpTo(laps, Len(laps), driver_map(leaderboard), player_names(leaderboard))

\* ------------------------------------------------------------ aggregate_results
\* MergeImproves with the comparison dropped: the later session always wins
MergeImprovesAlways(aggregated, key, lap_info) == TRUE

\* MergeImproves with <= for <: an equal laptime replaces
MergeImprovesOrEqual(aggregated, key, lap_info) ==
    \/ ~DictHas(aggregated, key)
    \/ lap_info.laptime <= DictGet(aggregated, key).laptime

\* the condition under which a session's entry replaces the aggregated one
MergeImproves(aggregated, key, lap_info) ==
    \/ ~DictHas(aggregated, key)
    \/ lap_info.laptime < DictGet(aggregated, key).laptime

\* "for key, lap_info in session_best_laps.items()", the first n items
RECURSIVE MergeUpTo(_, _, _)
MergeUpTo(aggregated, session_best_laps, n) ==
    IF n = 0 THEN aggregated
    ELSE LET acc      == MergeUpTo(aggregated, session_best_laps, n - 1)
             key      == session_best_laps[n][1]
             lap_info == session_best_laps[n][2]
         IN  IF MergeImproves(acc, key, lap_info)
             THEN DictSet(acc, key, lap_info)
             ELSE acc

\* Merge that leaves the loop after the session's first item
MergeFirstItemOnly(aggregated, session_best_laps) ==
    MergeUpTo(aggregated, session_best_laps, Min2(1, Len(session_best_laps)))

\* Merge that adds the session's items behind the aggregated ones, present or not
MergeExtend(aggregated, session_best_laps) == aggregated \o session_best_laps

Merge(aggregated, session_best_laps) ==
    MergeUpTo(aggregated, session_best_laps, Len(session_best_laps))

\* min(aggregated_results.items(), key=laptime)[1]["laptime"], on a non-empty dict
RECURSIVE MinLaptimeUpTo(_, _)
MinLaptimeUpTo(aggregated, n) ==
    IF n = 1 THEN aggregated[1][2].laptime
    ELSE Min2(MinLaptimeUpTo(aggregated, n - 1), aggregated[n][2].laptime)

\* MinLaptime that takes the first item for the fastest
MinLaptimeOfFirst(aggregated) == aggregated[1][2].laptime

MinLaptime(aggregated) == MinLaptimeUpTo(aggregated, Len(aggregated))

\* the list comprehension: one row per item, in iteration order
RankedRows(aggregated, best_lap) ==
    [i \in 1..Len(aggregated) |->
        [player_id |-> aggregated[i][1][1],
         name      |-> aggregated[i][2].name,
         car_model |-> aggregated[i][1][2],
         laptime   |-> aggregated[i][2].laptime,
         splits    |-> aggregated[i][2].splits,
         gap       |-> aggregated[i][2].laptime - best_lap]]

\* SortBefore with <= for <: a row moves in front of its equals
SortBeforeOrEqual(a, b) == a.laptime <= b.laptime

\* the comparison sorted() orders by: key=lambda x: x["laptime"]
SortBefore(a, b) == a.laptime < b.laptime

\* a row put into a sorted list behind every row that does not sort after it
RECURSIVE InsertSorted(_, _)
InsertSorted(sortedRows, row) ==
    IF sortedRows = <<>> THEN <<row>>
    ELSE IF SortBefore(row, sortedRows[Len(sortedRows)])
         THEN Append(InsertSorted(SubSeq(sortedRows, 1, Len(sortedRows) - 1), row),
                     sortedRows[Len(sortedRows)])
         ELSE Append(sortedRows, row)

\* sorted(rows, key=laptime): ascending and stable
RECURSIVE SortedUpTo(_, _)
SortedUpTo(rows, n) ==
    IF n = 0 THEN <<>> ELSE InsertSorted(SortedUpTo(rows, n - 1), rows[n])

Sorted(rows) == SortedUpTo(rows, Len(rows))

\* ------------------------------------------------------------ export_hotlaps
DigitChars == <<"0", "1", "2", "3", "4", "5", "6", "7", "8", "9">>

\* str(n) for n >= 0
RECURSIVE Decimal(_)
Decimal(n) ==
    IF n < 10 THEN <<DigitChars[n + 1]>>
    ELSE Append(Decimal(n \div 10), DigitChars[(n % 10) + 1])

\* the format spec ":0<width>" on n >= 0: zeros in front up to width, never cut
RECURSIVE ZeroPad(_, _)
ZeroPad(digits, width) ==
    IF Len(digits) >= width THEN digits ELSE ZeroPad(<<"0">> \o digits, width)

ms_to_time_format(milliseconds) ==
    LET minutes == milliseconds \div 60000
        seconds == (milliseconds % 60000) \div 1000
        millis  == milliseconds % 1000
    IN  ZeroPad(Decimal(minutes), 2) \o <<":">> \o ZeroPad(Decimal(seconds), 2)
            \o <<".">> \o ZeroPad(Decimal(millis), 3)

\* f'{gap / 1000:.3f}' for an integer gap >= 0
GapFormat(gap) == Decimal(gap \div 1000) \o <<".">> \o ZeroPad(Decimal(gap % 1000), 3)

\* cars.car_models: car model id -> display name
car_models == (5 :> "McLaren 650S GT3") @@ (7 :> "BMW M6 GT3")

fieldnames == <<"Name", "Car", "Lap Time", "S1", "S2", "S3", "Gap">>

\* one element of out_data
OutRow(entry) ==
    [Name    |-> entry.name[1] \o <<" ">> \o entry.name[2],
     Car     |-> car_models[entry.car_model],
     LapTime |-> ms_to_time_format(entry.laptime),
     S1      |-> ms_to_time_format(entry.splits[1]),
     S2      |-> ms_to_time_format(entry.splits[2]),
     S3      |-> ms_to_time_format(entry.splits[3]),
     Gap     |-> GapFormat(entry.gap)]

\* ------------------------------------------------------------ inputs
JsonSuffix == <<".", "j", "s", "o", "n">>

\* member names are distinct within an archive: the position is part of the name
JsonName(i)  == <<"s", DigitChars[i + 1]>> \o JsonSuffix
OtherName(i) == <<"n", DigitChars[i + 1], ".", "t", "x", "t">>

\* the sector times of lap j of member i: they add up to the laptime and tell
\* every lap of an archive from every other
SplitsAt(i, j, laptime) == <<30000 + i, 30000 + j, laptime - 60000 - i - j>>

MkLaps(shapes, i) ==
    [j \in 1..Len(shapes) |->
        [carId          |-> shapes[j].carId,
         driverIndex    |-> shapes[j].driverIndex,
         laptime        |-> shapes[j].laptime,
         isValidForBest |-> shapes[j].isValidForBest,
         splits         |-> SplitsAt(i, j, shapes[j].laptime)]]

MkSession(leaderboard, shapes, i) ==
    [laps          |-> MkLaps(shapes, i),
     sessionResult |-> [leaderBoardLines |-> leaderboard]]

JsonMember(leaderboard, shapes, i) ==
    [filename |-> JsonName(i), content |-> <<MkSession(leaderboard, shapes, i)>>]

\* a member that holds no session document: its content is never decoded
OtherMember(i) == [filename |-> OtherName(i), content |-> <<>>]

Driver(playerId, firstName, lastName) ==
    [playerId |-> playerId, firstName |-> firstName, lastName |-> lastName]

Entry(carId, carModel, drivers) ==
    [car |-> [carId |-> carId, carModel |-> carModel, drivers |-> drivers]]

Al   == Driver("P1", <<"A", "l">>, <<"L">>)
Alan == Driver("P1", <<"A", "l", "a", "n">>, <<"L">>)
Bo   == Driver("P2", <<"B", "o">>, <<"R">>)

\* Archives of several sessions.  Every session has the leaderboard of two cars,
\* P1 in car 1 (model 5) and P2 in car 2 (model 7); the last name a driver goes by
\* in the session of member i carries i, so a record tells which session it is of.
LeaderboardAt(i) ==
    <<Entry(1, 5, <<Driver("P1", <<"A", "l">>, <<"L", DigitChars[i + 1]>>)>>),
      Entry(2, 7, <<Driver("P2", <<"B", "o">>, <<"R", DigitChars[i + 1]>>)>>)>>

\* valid laps of 90000 and 85000 ms in either car and an invalid, faster lap of
\* 80000 ms in car 1
LapShapes ==
    {[carId |-> c, driverIndex |-> 0, laptime |-> t, isValidForBest |-> TRUE] :
        c \in {1, 2}, t \in {85000, 90000}}
    \cup {[carId |-> 1, driverIndex |-> 0, laptime |-> 80000, isValidForBest |-> FALSE]}

VARIABLE z  \* the archive: its members, in directory order

\* the laps of member i, when owner[j] is the member that holds lap j of shapes
LapsOfMember(shapes, owner, i) ==
    LET before == Cardinality({j \in DOMAIN owner : owner[j] < i})
        own    == Cardinality({j \in DOMAIN owner : owner[j] = i})
    IN  SubSeq(shapes, before + 1, before + own)

\* the archive of m members, those with isJson[i] holding sessions, whose laps
\* are shapes, dealt to the sessions in order
Archive(m, isJson, shapes, owner) ==
    [i \in 1..m |->
        IF isJson[i]
        THEN JsonMember(LeaderboardAt(i), LapsOfMember(shapes, owner, i), i)
        ELSE OtherMember(i)]

\* every archive of at most MaxMembers members and MaxLaps laps
InitArchive ==
    \E m \in 0..MaxMembers, n \in 0..MaxLaps :
        \E isJson \in [1..m -> BOOLEAN], shapes \in [1..n -> LapShapes],
           owner \in [1..n -> 1..m] :
            /\ \A j \in 1..n : isJson[owner[j]]
            /\ \A j \in 1..(n - 1) : owner[j] <= owner[j + 1]
            /\ z = Archive(m, isJson, shapes, owner)

\* Archives of one session with a leaderboard of any of these shapes: two drivers
\* sharing a car and one of them in a second car; a carId listed twice; one
\* driver in two cars of one model, listed under two names; no entry.
Leaderboards ==
    {<<Entry(1, 5, <<Al, Bo>>), Entry(2, 7, <<Al>>)>>,
     <<Entry(1, 5, <<Al>>), Entry(1, 7, <<Bo>>), Entry(2, 5, <<Alan>>)>>,
     <<Entry(1, 5, <<Al>>), Entry(2, 5, <<Alan>>)>>,
     <<>>}

\* laps of either validity that name a first driver, a second driver, and a car
\* and driver index (9, 3) no leaderboard lists
SessionLapShapes ==
    {[carId |-> r[1], driverIndex |-> r[2], laptime |-> t, isValidForBest |-> v] :
        r \in {<<1, 0>>, <<1, 1>>, <<2, 0>>, <<9, 3>>}, t \in {85000, 90000},
        v \in BOOLEAN}

\* every archive of one session of at most MaxSessionLaps laps
InitSessionArchive ==
    \E lb \in Leaderboards, n \in 0..MaxSessionLaps :
        \E shapes \in [1..n -> SessionLapShapes] :
            z = <<JsonMember(lb, shapes, 1)>>

\* ------------------------------------------------------------ the run
VARIABLES
    idx,                \* members the loop of aggregate_results has taken
    opened,             \* the names z.open was called with, in call order
    session_data,       \* <<>> while the name is unbound, else <<document>>
    session_best_laps,  \* <<>> while the name is unbound, else <<dict>>
    aggregated_results, \* the accumulator
    pc,                 \* "loop", "returned", "exported", "failed"
    error,              \* the exception that ended the run, "" if none
    aggregated_data,    \* what aggregate_results returned
    csvfile             \* <<>> while the output file does not exist, else <<rows>>

vars == <<z, idx, opened, session_data, session_best_laps, aggregated_results,
          pc, error, aggregated_data, csvfile>>

\* z.namelist()
namelist == [i \in 1..Len(z) |-> z[i].filename]

\* z.open(filename): the last member of that name
ZipOpen(filename) ==
    z[CHOOSE i \in 1..Len(z) :
        /\ z[i].filename = filename
        /\ \A k \in (i + 1)..Len(z) : z[k].filename # filename]

\* json.load(file): the member's document
JsonLoad(member) == member.content[1]

Init ==
    /\ (InitArchive \/ InitSessionArchive)
    /\ idx = 0
    /\ opened = <<>>
    /\ session_data = <<>>
    /\ session_best_laps = <<>>
    /\ aggregated_results = <<>>
    /\ pc = "loop"
    /\ error = ""
    /\ aggregated_data = <<>>
    /\ csvfile = <<>>

\* the rest of a loop iteration once session_data is decided: lines 71-77
ReduceAndMerge(data) ==
    /\ session_best_laps' = <<process_session_data(data)>>
    /\ aggregated_results' = Merge(aggregated_results, process_session_data(data))
    /\ idx' = idx + 1
    /\ UNCHANGED <<z, pc, error, aggregated_data, csvfile>>

\* an iteration on a member whose name ends in ".json"
ProcessJsonMember ==
    /\ pc = "loop"
    /\ idx < Len(z)
    /\ EndsWith(namelist[idx + 1], JsonSuffix)
    /\ opened' = Append(opened, namelist[idx + 1])
    /\ session_data' = <<JsonLoad(ZipOpen(namelist[idx + 1]))>>
    /\ ReduceAndMerge(JsonLoad(ZipOpen(namelist[idx + 1])))

\* an iteration on any other member, after some ".json" member: the statements
\* below the if run on the session_data of that earlier member
ProcessOtherMember ==
    /\ pc = "loop"
    /\ idx < Len(z)
    /\ ~EndsWith(namelist[idx + 1], JsonSuffix)
    /\ session_data # <<>>
    /\ UNCHANGED <<opened, session_data>>
    /\ ReduceAndMerge(session_data[1])

\* an iteration on any other member before any ".json" member: session_data is
\* read unbound
ProcessOtherMemberUnbound ==
    /\ pc = "loop"
    /\ idx < Len(z)
    /\ ~EndsWith(namelist[idx + 1], JsonSuffix)
    /\ session_data = <<>>
    /\ pc' = "failed"
    /\ error' = "UnboundLocalError"
    /\ UNCHANGED <<z, idx, opened, session_data, session_best_laps,
                   aggregated_results, aggregated_data, csvfile>>

\* after the loop, min() of an empty dict
RaiseEmpty ==
    /\ pc = "loop"
    /\ idx = Len(z)
    /\ aggregated_results = <<>>
    /\ pc' = "failed"
    /\ error' = "ValueError"
    /\ UNCHANGED <<z, idx, opened, session_data, session_best_laps,
                   aggregated_results, aggregated_data, csvfile>>

\* after the loop, the ranked list
ReturnRanked ==
    /\ pc = "loop"
    /\ idx = Len(z)
    /\ aggregated_results # <<>>
    /\ aggregated_data' =
           Sorted(RankedRows(aggregated_results, MinLaptime(aggregated_results)))
    /\ pc' = "returned"
    /\ UNCHANGED <<z, idx, opened, session_data, session_best_laps,
                   aggregated_results, error, csvfile>>

\* export_hotlaps(args.output, aggregated_data): the file is created, then the rows
\* are built (a car model the table lacks raises), then written
Export ==
    /\ pc = "returned"
    /\ IF \A i \in 1..Len(aggregated_data) :
              aggregated_data[i].car_model \in DOMAIN car_models
       THEN /\ csvfile' = <<<<fieldnames>> \o
                            [i \in 1..Len(aggregated_data) |-> OutRow(aggregated_data[i])]>>
            /\ pc' = "exported"
            /\ error' = error
       ELSE /\ csvfile' = <<<<>>>>
            /\ pc' = "failed"
            /\ error' = "KeyError"
    /\ UNCHANGED <<z, idx, opened, session_data, session_best_laps,
                   aggregated_results, aggregated_data>>

Next ==
    \/ ProcessJsonMember
    \/ ProcessOtherMember
    \/ ProcessOtherMemberUnbound
    \/ RaiseEmpty
    \/ ReturnRanked
    \/ Export

Spec == Init /\ [][Next]_vars

\* ------------------------------------------------------------ what the claims speak of
\* These definitions state the claims' notions directly on the input documents;
\* none of them goes through the dicts the code builds.

PlayerIds == {"P1", "P2"}
CarModelIds == {5, 7}
Keys == PlayerIds \X CarModelIds

SetMin(S) == CHOOSE x \in S : \A y \in S : x <= y
SetMax(S) == CHOOSE x \in S : \A y \in S : x >= y

LeaderboardOf(data) == data.sessionResult.leaderBoardLines

\* the leaderboard entries that list lap's car with a driver at lap's index
EntriesFor(leaderboard, lap) ==
    {e \in 1..Len(leaderboard) :
        /\ leaderboard[e].car.carId = lap.carId
        /\ lap.driverIndex + 1 \in 1..Len(leaderboard[e].car.drivers)}

Resolves(leaderboard, lap) == EntriesFor(leaderboard, lap) # {}

\* the key a lap resolves to: that of the last such entry
KeyOf(leaderboard, lap) ==
    LET e == SetMax(EntriesFor(leaderboard, lap))
    IN  <<leaderboard[e].car.drivers[lap.driverIndex + 1].playerId,
          leaderboard[e].car.carModel>>

\* the laps of a session that count for key: resolved to it and valid
CountingLaps(data, key) ==
    {j \in 1..Len(data.laps) :
        /\ data.laps[j].isValidForBest
        /\ Resolves(LeaderboardOf(data), data.laps[j])
        /\ KeyOf(LeaderboardOf(data), data.laps[j]) = key}

\* the name a session's leaderboard gives a player: that of the last listing
NameIn(leaderboard, playerId) ==
    LET listings == UNION {{<<e, d>> : d \in {k \in 1..Len(leaderboard[e].car.drivers) :
                                        leaderboard[e].car.drivers[k].playerId = playerId}} :
                           e \in 1..Len(leaderboard)}
        last == CHOOSE x \in listings :
                    \A y \in listings : y[1] < x[1] \/ (y[1] = x[1] /\ y[2] <= x[2])
    IN  <<leaderboard[last[1]].car.drivers[last[2]].firstName,
          leaderboard[last[1]].car.drivers[last[2]].lastName>>

\* the session without its lap j
WithoutLap(data, j) ==
    [data EXCEPT !.laps = SubSeq(data.laps, 1, j - 1) \o
                          SubSeq(data.laps, j + 1, Len(data.laps))]

IsJson(i) == EndsWith(z[i].filename, JsonSuffix)

\* the positions of the members of the first n that hold sessions
JsonMembers(n) == {i \in 1..n : IsJson(i)}

DocOf(i) == z[i].content[1]

\* the laps of the first n members that count for key, as <<member, lap>>
CountingLapsUpTo(n, key) ==
    UNION {{<<i, j>> : j \in CountingLaps(DocOf(i), key)} : i \in JsonMembers(n)}

LaptimeAt(p) == DocOf(p[1]).laps[p[2]].laptime

\* archive order: member by member, lap by lap
Earlier(p, q) == p[1] < q[1] \/ (p[1] = q[1] /\ p[2] < q[2])

\* C1: the mapping process_session_data returns has a key exactly when the
\* session has a valid lap resolving to it, stores the minimum laptime over
\* exactly those laps, and is the same as for the session without any one of
\* its invalid laps.
C1_SessionBestIsMinOverValidLaps ==
    session_best_laps # <<>> =>
        LET data == session_data[1]
            r    == session_best_laps[1]
        IN  /\ \A a, b \in 1..Len(r) : r[a][1] = r[b][1] => a = b
            /\ \A a \in 1..Len(r) : r[a][1] \in Keys
            /\ \A key \in Keys :
                 /\ DictHas(r, key) <=> CountingLaps(data, key) # {}
                 /\ DictHas(r, key) =>
                      DictGet(r, key).laptime =
                          SetMin({data.laps[j].laptime : j \in CountingLaps(data, key)})
            /\ \A j \in 1..Len(data.laps) :
                 ~data.laps[j].isValidForBest =>
                      process_session_data(WithoutLap(data, j)) = r

\* a session reduced to a key whose best lap is slower than an invalid lap of
\* the same key and faster than another valid one
C1_Witness ==
    /\ session_best_laps # <<>>
    /\ \E key \in Keys :
         LET data == session_data[1]
             lb   == LeaderboardOf(data)
         IN  /\ DictHas(session_best_laps[1], key)
             /\ \E j \in 1..Len(data.laps) :
                  /\ ~data.laps[j].isValidForBest
                  /\ Resolves(lb, data.laps[j])
                  /\ KeyOf(lb, data.laps[j]) = key
                  /\ data.laps[j].laptime < DictGet(session_best_laps[1], key).laptime
             /\ \E j \in CountingLaps(data, key) :
                  data.laps[j].laptime > DictGet(session_best_laps[1], key).laptime

\* C7: a lap whose (carId, driverIndex) no leaderboard entry lists at that
\* index is skipped, valid or not: the result is that of the session without it.
C7_UnresolvedLapSkipped ==
    session_best_laps # <<>> =>
        LET data == session_data[1]
        IN  \A j \in 1..Len(data.laps) :
                ~Resolves(LeaderboardOf(data), data.laps[j]) =>
                    process_session_data(WithoutLap(data, j)) = session_best_laps[1]

\* a reduced session with a valid lap of a car the leaderboard lists, at a
\* driver index it does not, faster than the best lap of the result
C7_Witness ==
    /\ session_best_laps # <<>>
    /\ Len(session_best_laps[1]) = 1
    /\ \E j \in 1..Len(session_data[1].laps) :
         LET lap == session_data[1].laps[j]
             lb  == LeaderboardOf(session_data[1])
         IN  /\ ~Resolves(lb, lap)
             /\ lap.isValidForBest
             /\ \E e \in 1..Len(lb) : lb[e].car.carId = lap.carId
             /\ lap.laptime < session_best_laps[1][1][2].laptime

\* the record the accumulator holds for key, which it has
Stored(key) == DictGet(aggregated_results, key)

\* C2, state part: once idx members are processed, the accumulator has a key
\* exactly when some session among them has a lap counting for it, with the
\* minimum laptime over those laps.
C2_RunningMin ==
    \A key \in Keys :
        LET laps == CountingLapsUpTo(idx, key)
        IN  /\ DictHas(aggregated_results, key) <=> laps # {}
            /\ DictHas(aggregated_results, key) =>
                 Stored(key).laptime = SetMin({LaptimeAt(p) : p \in laps})

\* C2, step part: a stored laptime never increases, and a record is replaced only
\* by one of strictly smaller laptime.
C2_NeverSlower ==
    \A key \in Keys :
        DictHas(aggregated_results, key) =>
            /\ DictHas(aggregated_results', key)
            /\ DictGet(aggregated_results', key).laptime <= Stored(key).laptime
            /\ DictGet(aggregated_results', key) # Stored(key) =>
                   DictGet(aggregated_results', key).laptime < Stored(key).laptime

\* C2: after each member the accumulator's laptime for every key is the minimum
\* over the valid, resolved laps of that key in the sessions processed so far;
\* from one member to the next it never increases and is replaced only by a
\* strictly smaller one.
C2_AccumulatorIsRunningMin == []C2_RunningMin /\ [][C2_NeverSlower]_vars

\* session A with a valid lap of 90000 and an invalid one of 80000, session B
\* with a valid lap of 85000, all of (P1, 5): after both, 85000
C2_Witness ==
    /\ Len(z) = 2 /\ idx = 2 /\ IsJson(1) /\ IsJson(2)
    /\ Len(DocOf(1).laps) = 2 /\ Len(DocOf(2).laps) = 1
    /\ \A i \in 1..2 : \A j \in 1..Len(DocOf(i).laps) : DocOf(i).laps[j].carId = 1
    /\ \E j \in 1..2 : /\ DocOf(1).laps[j].laptime = 90000
                       /\ DocOf(1).laps[j].isValidForBest
    /\ \E j \in 1..2 : /\ DocOf(1).laps[j].laptime = 80000
                       /\ ~DocOf(1).laps[j].isValidForBest
    /\ DocOf(2).laps[1].laptime = 85000 /\ DocOf(2).laps[1].isValidForBest
    /\ Stored(<<"P1", 5>>).laptime = 85000

\* the accumulator of the run on the first n members with those whose name does
\* not end in ".json" removed
RECURSIVE AggregatedWithoutOthers(_)
AggregatedWithoutOthers(n) ==
    IF n = 0 THEN <<>>
    ELSE IF IsJson(n)
         THEN Merge(AggregatedWithoutOthers(n - 1), process_session_data(DocOf(n)))
         ELSE AggregatedWithoutOthers(n - 1)

\* C3: members whose name does not end in ".json" are never opened and, wherever
\* they stand, leave the outcome what it is for the archive without them: the
\* same ranked list, or a failure where that run fails.
C3_OtherMembersIgnored ==
    LET without == AggregatedWithoutOthers(Len(z))
    IN  /\ \A k \in 1..Len(opened) : EndsWith(opened[k], JsonSuffix)
        /\ (pc = "failed" /\ error \in {"UnboundLocalError", "ValueError"}) =>
               without = <<>>
        /\ pc \in {"returned", "exported"} =>
               /\ without # <<>>
               /\ aggregated_data = Sorted(RankedRows(without, MinLaptime(without)))

\* whether the archive yields no aggregated record: no session has a valid lap
\* that resolves
NoRecord ==
    \A i \in JsonMembers(Len(z)) : \A j \in 1..Len(DocOf(i).laps) :
        ~(DocOf(i).laps[j].isValidForBest /\ Resolves(LeaderboardOf(DocOf(i)), DocOf(i).laps[j]))

\* C4: an archive that yields no aggregated record makes the run fail in
\* aggregate_results; export_hotlaps is never reached and no file is created.
C4_EmptyResultFailsBeforeExport ==
    NoRecord =>
        /\ pc \in {"loop", "failed"}
        /\ pc = "failed" => error \in {"UnboundLocalError", "ValueError"}
        /\ ~ENABLED Next => pc = "failed"
        /\ aggregated_data = <<>>
        /\ csvfile = <<>>

\* a failed run on an archive whose sessions have laps, none of them valid
C4_Witness ==
    /\ NoRecord
    /\ pc = "failed"
    /\ error = "ValueError"
    /\ \A i \in 1..Len(z) : IsJson(i) /\ Len(DocOf(i).laps) > 0
    /\ Len(z) = 2

\* the fastest aggregated laptime
Fastest == SetMin({aggregated_results[i][2].laptime : i \in 1..Len(aggregated_results)})

\* C5: in the returned list every gap is the entry's laptime minus the fastest
\* aggregated laptime: no gap is negative, the first entry's is 0, and a gap is
\* 0 exactly for a laptime equal to the fastest.
C5_GapIsDistanceToFastest ==
    pc \in {"returned", "exported"} =>
        /\ aggregated_data # <<>>
        /\ aggregated_data[1].gap = 0
        /\ \A i \in 1..Len(aggregated_data) :
             /\ aggregated_data[i].gap = aggregated_data[i].laptime - Fastest
             /\ aggregated_data[i].gap >= 0
             /\ aggregated_data[i].gap = 0 <=> aggregated_data[i].laptime = Fastest

\* a returned list of two entries whose slower one was aggregated first
C5_Witness ==
    /\ pc = "returned"
    /\ Len(aggregated_data) = 2
    /\ aggregated_results[1][2].laptime > aggregated_results[2][2].laptime
    /\ aggregated_data[2].gap = 5000

RowKey(row) == <<row.player_id, row.car_model>>

\* the first lap of the archive that counts for key
FirstCounting(key) ==
    CHOOSE p \in CountingLapsUpTo(Len(z), key) :
        \A q \in CountingLapsUpTo(Len(z), key) : q = p \/ Earlier(p, q)

\* C6: the returned list has exactly one entry per key of the accumulator, is
\* non-decreasing in laptime, and orders entries of equal laptime as their keys
\* were first met, member by member and lap by lap.
C6_RankedOncePerKeyStable ==
    pc \in {"returned", "exported"} =>
        /\ Len(aggregated_data) = Len(aggregated_results)
        /\ \A k \in 1..Len(aggregated_results) :
             Cardinality({i \in 1..Len(aggregated_data) :
                            RowKey(aggregated_data[i]) = aggregated_results[k][1]}) = 1
        /\ \A i, j \in 1..Len(aggregated_data) :
             i < j =>
                /\ aggregated_data[i].laptime <= aggregated_data[j].laptime
                /\ aggregated_data[i].laptime = aggregated_data[j].laptime =>
                     Earlier(FirstCounting(RowKey(aggregated_data[i])),
                             FirstCounting(RowKey(aggregated_data[j])))

\* P2 and P1 tie, in different cars, and P2's lap came first: P2 is ranked first
C6_Witness ==
    /\ pc = "returned"
    /\ Len(aggregated_data) = 2
    /\ aggregated_data[1].laptime = aggregated_data[2].laptime
    /\ aggregated_data[1].player_id = "P2"
    /\ aggregated_data[2].player_id = "P1"
    /\ aggregated_data[1].car_model # aggregated_data[2].car_model

FirstFastest(n, key) ==
    LET laps    == CountingLapsUpTo(n, key)
        fastest == {p \in laps : \A q \in laps : LaptimeAt(p) <= LaptimeAt(q)}
    IN  CHOOSE p \in fastest : \A q \in fastest : q = p \/ Earlier(p, q)

\* C9: among the valid, resolved laps of a key that share its minimum laptime,
\* the first in archive order (member by member, lap by lap) gives the record
\* its splits and driver name; no later lap of equal laptime replaces it.
C9_FirstSeenWinsTies ==
    \A key \in Keys :
        DictHas(aggregated_results, key) =>
            LET p == FirstFastest(idx, key)
            IN  Stored(key) =
                    [laptime |-> LaptimeAt(p),
                     splits  |-> DocOf(p[1]).laps[p[2]].splits,
                     name    |-> NameIn(LeaderboardOf(DocOf(p[1])), key[1])]

\* two sessions processed, each with a lap of the key's minimum laptime, and the
\* second session with two of them
C9_Witness ==
    /\ idx = 2
    /\ \E key \in Keys :
         /\ DictHas(aggregated_results, key)
         /\ \E p, q, r \in CountingLapsUpTo(2, key) :
              /\ p[1] = 1 /\ q[1] = 2 /\ r[1] = 2 /\ q # r
              /\ LaptimeAt(p) = Stored(key).laptime
              /\ LaptimeAt(q) = Stored(key).laptime
              /\ LaptimeAt(r) = Stored(key).laptime

\* C10, state part: merging the session result just merged once more changes
\* nothing, neither a record nor the order of the keys.
C10_MergedTwice ==
    session_best_laps # <<>> =>
        Merge(aggregated_results, session_best_laps[1]) = aggregated_results

\* C10, step part: the iteration on a member whose name does not end in ".json"
\* leaves the accumulator as it is.
C10_OtherMemberStep ==
    (idx' = idx + 1 /\ ~IsJson(idx + 1)) =>
        /\ aggregated_results' = aggregated_results
        /\ session_best_laps' = session_best_laps

\* C10: the merge step is idempotent: merging a session result a second time,
\* as the iteration on a non-".json" member after a ".json" member does, leaves
\* every record and the key order unchanged.
C10_MergeIdempotent == []C10_MergedTwice /\ [][C10_OtherMemberStep]_vars

\* the iteration on a non-".json" member has run on an accumulator of two keys
C10_Witness ==
    /\ idx = 2
    /\ pc = "loop"
    /\ IsJson(1) /\ ~IsJson(2)
    /\ Len(aggregated_results) = 2

====
